---- MODULE Spec2Model ----
(***************************************************************************)
(* Model of scripts/generate_documents.py: the synthetic OCR fixture       *)
(* generator.  One launch of the script evaluates the module-level         *)
(* tables (QUALITY_SETTINGS draws its edge rotation from the random        *)
(* module), then main() creates the output directories, renders 30         *)
(* receipts, 20 acknowledgment letters and 15 bank statements, and writes  *)
(* manifest.json.  The disk (directories, images, manifest.json) outlives  *)
(* a launch; everything else is rebuilt by the next one.                   *)
(*                                                                         *)
(* Units: money is held in cents, blur radii in tenths of a pixel, dates   *)
(* as day offsets from 2025-01-01 until strftime formats them.             *)
(***************************************************************************)
EXTENDS Integers, Sequences, FiniteSets, TLC

\* ------------------------------------------------------------------ bounds

\* Launches of the script that are followed (the second reruns it on the
\* disk the first one left).
MaxRuns == 2
\* Seeds the operating system may hand the random module in Spec.
NumSeeds == 2
\* Pixels the noise loop of apply_quality visits (the canvas is cut to a strip).
NoisePixels == 2
\* SpecQuality seeds the generator with every multiple of the stride below
\* the modulus.
QualitySeedStride == 389
\* SpecStatement does the same with its own stride.
StatementSeedStride == 5
\* Calls of apply_quality a direct caller makes in one launch.
MaxQualityCalls == 2

\* ------------------------------------------------------------- random module

\* The random module is a deterministic generator seeded from the operating
\* system at import.  It is modelled as a Lehmer generator: the state is the
\* last word, a draw scales the word to the requested range and steps.
Modulus == 8191
Multiplier == 17

NextRng(r) == (Multiplier * r) % Modulus

\* span * r \div Modulus, computed without leaving 32 bits
Scale(span, r) == (span \div Modulus) * r + ((span % Modulus) * r) \div Modulus

\* random._randbelow(n): a value in 0..n-1 and the generator after the draw.
RandBelow(n, r) == [val |-> Scale(n, r), rng |-> NextRng(r)]

\* random.randint(a, b) = a + _randbelow(b - a + 1)
RandInt(a, b, r) == LET d == RandBelow(b - a + 1, r) IN [val |-> a + d.val, rng |-> d.rng]

\* random.uniform(a, b) = a + (b - a) * random(), in cents for a, b in dollars.
Uniform(a, b, r) == [val |-> a * 100 + Scale((b - a) * 100, r), rng |-> NextRng(r)]

\* random.random() < 0.1
RandomBelowTenth(r) == [val |-> r * 10 < Modulus, rng |-> NextRng(r)]

\* ----------------------------------------------------------- catalog data

ORGANIZATIONS ==
  << [name |-> "Goodwill Industries", ein |-> "53-0196517", short |-> "goodwill"],
     [name |-> "The Salvation Army", ein |-> "13-5562351", short |-> "salvation-army"],
     [name |-> "American Red Cross", ein |-> "53-0196605", short |-> "redcross"],
     [name |-> "Habitat for Humanity", ein |-> "91-1914868", short |-> "habitat"],
     [name |-> "United Way Worldwide", ein |-> "13-1635294", short |-> "unitedway"],
     [name |-> "Community Food Bank", ein |-> "12-3456789", short |-> "foodbank"],
     [name |-> "First Community Church", ein |-> "23-4567890", short |-> "church"],
     [name |-> "State University Foundation", ein |-> "34-5678901", short |-> "university"] >>

BANKS ==
  << [name |-> "Chase Bank", short |-> "chase"],
     [name |-> "Bank of America", short |-> "bofa"],
     [name |-> "Wells Fargo", short |-> "wellsfargo"],
     [name |-> "Citibank", short |-> "citi"],
     [name |-> "Local Credit Union", short |-> "creditunion"] >>

\* The table of line 38-43; evaluating it draws the edge rotation.
QualitySettings(r) ==
  LET rot == RandInt(5, 15, r) IN
  [table |-> [q \in {"high", "medium", "low", "edge"} |->
                CASE q = "high"   -> [blur |-> 0,  noise |-> 0,  rotation |-> 0]
                  [] q = "medium" -> [blur |-> 5,  noise |-> 10, rotation |-> 0]
                  [] q = "low"    -> [blur |-> 15, noise |-> 25, rotation |-> 0]
                  [] q = "edge"   -> [blur |-> 8,  noise |-> 15, rotation |-> rot.val]],
   rng |-> rot.rng]

\* ------------------------------------------------------------ text helpers

Digits == <<"0", "1", "2", "3", "4", "5", "6", "7", "8", "9">>

RECURSIVE IntToStr(_)
\* str(n) / f"{n}" for n >= 0
IntToStr(n) == IF n < 10 THEN Digits[n + 1] ELSE IntToStr(n \div 10) \o Digits[(n % 10) + 1]

RECURSIVE ZeroPad(_, _)
\* the 0w of a format spec: zeros on the left up to the width, never a cut
ZeroPad(s, w) == IF Len(s) < w THEN ZeroPad("0" \o s, w) ELSE s

\* f"{index:03d}"
Format03d(n) == ZeroPad(IntToStr(n), 3)

Lower == "abcdefghijklmnopqrstuvwxyz"
Upper == "ABCDEFGHIJKLMNOPQRSTUVWXYZ"

RECURSIVE UpperChar(_, _)
UpperChar(c, k) ==
  IF k > Len(Lower) THEN c
  ELSE IF SubSeq(Lower, k, k) = c THEN SubSeq(Upper, k, k) ELSE UpperChar(c, k + 1)

RECURSIVE StrUpper(_)
\* str.upper()
StrUpper(s) == IF Len(s) = 0 THEN "" ELSE UpperChar(SubSeq(s, 1, 1), 1) \o StrUpper(SubSeq(s, 2, Len(s)))

\* s[:n]
Prefix(s, n) == SubSeq(s, 1, IF Len(s) < n THEN Len(s) ELSE n)

\* ------------------------------------------------------------------- dates

IsLeap(y) == (y % 4 = 0 /\ y % 100 # 0) \/ y % 400 = 0
YearLen(y) == IF IsLeap(y) THEN 366 ELSE 365
MonthLen(y, m) ==
  IF m = 2 THEN (IF IsLeap(y) THEN 29 ELSE 28)
  ELSE IF m \in {4, 6, 9, 11} THEN 30 ELSE 31

RECURSIVE MonthDay(_, _, _)
\* day-of-year k (from 0) of year y, walked month by month
MonthDay(y, m, k) ==
  IF k < MonthLen(y, m) THEN [year |-> y, month |-> m, day |-> k + 1]
  ELSE MonthDay(y, m + 1, k - MonthLen(y, m))

RECURSIVE CivilDate(_, _)
\* the calendar date of day offset n counted from January 1st of year y
CivilDate(y, n) ==
  IF n < 0 THEN CivilDate(y - 1, n + YearLen(y - 1))
  ELSE IF n >= YearLen(y) THEN CivilDate(y + 1, n - YearLen(y))
  ELSE MonthDay(y, 1, n)

\* datetime(2025, 1, 1) + timedelta(days=n), as a calendar date
DateOf(n) == CivilDate(2025, n)

\* strftime("%Y-%m-%d")
StrfIso(n) ==
  LET d == DateOf(n) IN
  IntToStr(d.year) \o "-" \o ZeroPad(IntToStr(d.month), 2) \o "-" \o ZeroPad(IntToStr(d.day), 2)

\* random_date(): start + timedelta(days=randint(0, (end - start).days)),
\* start = 2025-01-01, end = 2026-01-29: 393 days
RandomDate(r) == RandInt(0, 393, r)

\* random_amount(min_amt, max_amt): round(uniform(min, max), 2)
RandomAmount(lo, hi, r) == Uniform(lo, hi, r)

\* ------------------------------------------------------------------- state

VARIABLES
  run,               \* launches of the script so far
  pc,                \* position in main: mkdirs, receipts, letters, statements,
                     \* manifest, done, failed (or harness: a direct caller)
  rng,               \* state of the random module's generator
  QUALITY_SETTINGS,  \* the table as evaluated at import
  i,                 \* index of the running for loop
  receipt_count, letter_count, statement_count,
  manifest_entries,  \* the list main hands to every renderer
  rpc,               \* position in the running renderer: call, watermark,
                     \* quality, save, append, return
  frame,             \* the running renderer's arguments and locals
  img,               \* the canvas: the drawing and filter operations applied so far
  trace,             \* functions the running renderer has called, in order
  saved,             \* file paths img.save has written in this launch, in order
  dirs,              \* disk: directories under OUTPUT_DIR
  disk,              \* disk: image files, path -> canvas
  manifest_file,     \* disk: manifest.json
  manifest_writes    \* times this launch has written manifest.json

vars == << run, pc, rng, QUALITY_SETTINGS, i, receipt_count, letter_count,
           statement_count, manifest_entries, rpc, frame, img, trace, saved,
           dirs, disk, manifest_file, manifest_writes >>

diskVars == << dirs, disk, manifest_file, manifest_writes >>
countVars == << receipt_count, letter_count, statement_count >>

SUBDIRS == << "receipts", "acknowledgment_letters", "bank_statements",
              "credit_card_statements", "cancelled_checks", "appraisals",
              "form_8283", "other" >>

\* OUTPUT_DIR, relative to the repository root
OUTPUT_DIR == "documents"

\* os.path.join
PathJoin(a, b) == a \o "/" \o b

RECURSIVE Repeat(_, _)
\* [x] * n
Repeat(x, n) == IF n = 0 THEN << >> ELSE <<x>> \o Repeat(x, n - 1)

\* variant of ReceiptQualities: one edge receipt short
ReceiptQualitiesShort ==
  Repeat("high", 12) \o Repeat("medium", 9) \o Repeat("low", 6) \o Repeat("edge", 2)

\* the quality lists main enumerates
ReceiptQualities == Repeat("high", 12) \o Repeat("medium", 9) \o Repeat("low", 6) \o Repeat("edge", 3)
LetterQualities == Repeat("high", 10) \o Repeat("medium", 6) \o Repeat("low", 4)
StatementQualities == Repeat("high", 8) \o Repeat("medium", 5) \o Repeat("low", 2)

NoFile == [exists |-> FALSE]
NoFrame == [doc |-> "", party |-> [name |-> "", short |-> ""], quality |-> "",
            index |-> 0, fields |-> [none |-> TRUE], transactions |-> << >>,
            filename |-> ""]

\* one operation on the canvas: its name, its numbers, its strings
Op(name, arg, text) == [op |-> name, arg |-> arg, text |-> text]

\* ------------------------------------------------------------ post-processing

\* add_watermark: one draw.text on the same image
AddWatermarkFn(image) == Append(image, Op("watermark", << >>, <<"SAMPLE - FOR TESTING ONLY">>))

RECURSIVE NoiseLoop(_, _, _, _)
\* the pixel loop of apply_quality: for each pixel, with probability 0.1, a
\* delta drawn from -n..n (0 records a pixel left alone)
NoiseLoop(k, n, deltas, r) ==
  IF k = 0 THEN [val |-> deltas, rng |-> r]
  ELSE LET hit == RandomBelowTenth(r) IN
       IF hit.val
       THEN LET d == RandInt(-n, n, hit.rng) IN NoiseLoop(k - 1, n, Append(deltas, d.val), d.rng)
       ELSE NoiseLoop(k - 1, n, Append(deltas, 0), hit.rng)

\* variant of SettingsFor: an unknown label falls back to the worst preset
SettingsForFallbackLow(table, quality) ==
  IF quality \in DOMAIN table THEN table[quality] ELSE table["low"]

\* QUALITY_SETTINGS.get(quality, QUALITY_SETTINGS["high"])
SettingsFor(table, quality) == IF quality \in DOMAIN table THEN table[quality] ELSE table["high"]

\* the blur step
BlurStep(image, settings) ==
  IF settings.blur > 0 THEN Append(image, Op("blur", <<settings.blur>>, << >>)) ELSE image

\* the noise step
NoiseStep(image, settings, r) ==
  IF settings.noise > 0
  THEN LET l == NoiseLoop(NoisePixels, settings.noise, << >>, r) IN
       [img |-> Append(image, Op("noise", l.val, << >>)), rng |-> l.rng]
  ELSE [img |-> image, rng |-> r]

\* the rotation step: angle = random.choice([-1, 1]) * rotation
RotationStep(image, settings, r) ==
  IF settings.rotation > 0
  THEN LET c == RandBelow(2, r)
           angle == <<-1, 1>>[c.val + 1] * settings.rotation IN
       [img |-> Append(image, Op("rotate", <<angle>>, << >>)), rng |-> c.rng]
  ELSE [img |-> image, rng |-> r]

\* variant of ApplyQualityFn: the noise is added before the blur
ApplyQualityNoiseFirst(image, quality, table, r) ==
  LET settings == SettingsFor(table, quality)
      noised == NoiseStep(image, settings, r)
      blurred == BlurStep(noised.img, settings)
  IN RotationStep(blurred, settings, noised.rng)

\* apply_quality(img, quality): the image returned and the generator afterwards
ApplyQualityFn(image, quality, table, r) ==
  LET settings == SettingsFor(table, quality)
      blurred == BlurStep(image, settings)
      noised == NoiseStep(blurred, settings, r)
  IN RotationStep(noised.img, settings, noised.rng)

\* ------------------------------------------------------------------ receipts

\* variant of ReceiptFilename: the index left out of the name
ReceiptFilenameNoIndex(org, quality, index) ==
  "receipt_" \o org.short \o "_" \o quality \o ".png"

\* f"receipt_{org['short']}_{quality}_{index:03d}.png"
ReceiptFilename(org, quality, index) ==
  "receipt_" \o org.short \o "_" \o quality \o "_" \o Format03d(index) \o ".png"

\* generate_receipt up to the footer: the data drawn and the canvas
GenerateReceiptDraw(org, quality, index) ==
  LET date == RandomDate(rng)
      amount == RandomAmount(25, 5000, date.rng)
      num == RandInt(10000, 99999, amount.rng)
      receipt_num == "RCP-" \o IntToStr(DateOf(date.val).year) \o "-" \o IntToStr(num.val)
  IN /\ rpc = "call"
     /\ frame' = [doc |-> "receipt", party |-> org, quality |-> quality, index |-> index,
                  fields |-> [organization_name |-> org.name,
                              ein |-> org.ein,
                              amount |-> amount.val,
                              date |-> StrfIso(date.val),
                              donor_name |-> "Test Donor",
                              receipt_number |-> receipt_num],
                  transactions |-> << >>, filename |-> ""]
     /\ img' = << Op("receipt", <<date.val, amount.val>>, <<org.name, org.ein, receipt_num>>) >>
     /\ rng' = num.rng
     /\ rpc' = "watermark"
     /\ trace' = <<"draw">>

\* ------------------------------------------------------ acknowledgment letters

\* variant of LetterFilename: quality and organization swapped
LetterFilenameSwapped(org, quality, index) ==
  "acknowledgment_" \o quality \o "_" \o org.short \o "_" \o Format03d(index) \o ".png"

\* f"acknowledgment_{org['short']}_{quality}_{index:03d}.png"
LetterFilename(org, quality, index) ==
  "acknowledgment_" \o org.short \o "_" \o quality \o "_" \o Format03d(index) \o ".png"

\* generate_acknowledgment_letter up to the closing
GenerateLetterDraw(org, quality, index) ==
  LET date == RandomDate(rng)
      amount == RandomAmount(25, 5000, date.rng)
      back == RandInt(1, 14, amount.rng)
      donation_date == date.val - back.val
  IN /\ rpc = "call"
     /\ frame' = [doc |-> "acknowledgment_letter", party |-> org, quality |-> quality,
                  index |-> index,
                  fields |-> [organization_name |-> org.name,
                              ein |-> org.ein,
                              amount |-> amount.val,
                              date |-> StrfIso(donation_date),
                              donor_name |-> "Test Donor"],
                  transactions |-> << >>, filename |-> ""]
     /\ img' = << Op("letter", <<date.val, amount.val, donation_date>>, <<org.name, org.ein>>) >>
     /\ rng' = back.rng
     /\ rpc' = "watermark"
     /\ trace' = <<"draw">>

\* ------------------------------------------------------------ bank statements

\* f"bank_statement_{bank['short']}_{quality}_{index:03d}.png"
StatementFilename(bank, quality, index) ==
  "bank_statement_" \o bank.short \o "_" \o quality \o "_" \o Format03d(index) \o ".png"

Descriptions == <<"GROCERY STORE", "GAS STATION", "RESTAURANT", "ONLINE PURCHASE">>

NoOrg == [name |-> "", ein |-> "", short |-> ""]

RECURSIVE RegularTransactions(_, _)
\* the loop of lines 346-356; s holds transactions, balance, current_date, rng
RegularTransactions(k, s) ==
  IF k = 0 THEN s
  ELSE LET amt == Uniform(20, 200, s.rng)
           desc == RandBelow(Len(Descriptions), amt.rng)
           step == RandInt(1, 5, desc.rng)
           balance == s.balance - amt.val
       IN RegularTransactions(k - 1,
            [transactions |-> Append(s.transactions,
                                [date |-> s.current_date,
                                 desc |-> Descriptions[desc.val + 1],
                                 amount |-> -amt.val,
                                 balance |-> balance,
                                 charitable |-> FALSE,
                                 org |-> NoOrg]),
             balance |-> balance,
             current_date |-> s.current_date + step.val,
             rng |-> step.rng])

RECURSIVE SampleLoop(_, _, _, _)
\* random.sample, the pool branch: result[i] = pool[j]; pool[j] = pool[n-i-1]
SampleLoop(pool, left, result, r) ==
  IF left = 0 THEN [val |-> result, rng |-> r]
  ELSE LET n == Len(pool) - Len(result)
           j == RandBelow(n, r)
       IN SampleLoop([pool EXCEPT ![j.val + 1] = pool[n]], left - 1,
                     Append(result, pool[j.val + 1]), j.rng)

\* random.sample(population, k)
Sample(population, k, r) == SampleLoop(population, k, << >>, r)

RECURSIVE CharitableTransactions(_, _)
\* the loop of lines 360-371 over the sampled organizations
CharitableTransactions(orgs, s) ==
  IF orgs = << >> THEN s
  ELSE LET org == Head(orgs)
           amt == RandomAmount(50, 500, s.rng)
           step == RandInt(1, 5, amt.rng)
           balance == s.balance - amt.val
       IN CharitableTransactions(Tail(orgs),
            [transactions |-> Append(s.transactions,
                                [date |-> s.current_date,
                                 desc |-> "DONATION " \o StrUpper(Prefix(org.name, 20)),
                                 amount |-> -amt.val,
                                 balance |-> balance,
                                 charitable |-> TRUE,
                                 org |-> org]),
             balance |-> balance,
             current_date |-> s.current_date + step.val,
             rng |-> step.rng])

RECURSIVE InsertByDate(_, _)
\* one step of a stable sort: t goes after every element dated no later
InsertByDate(sorted, t) ==
  IF sorted = << >> THEN <<t>>
  ELSE IF sorted[Len(sorted)].date <= t.date THEN Append(sorted, t)
  ELSE Append(InsertByDate(SubSeq(sorted, 1, Len(sorted) - 1), t), sorted[Len(sorted)])

RECURSIVE SortLoop(_, _)
SortLoop(todo, sorted) ==
  IF todo = << >> THEN sorted ELSE SortLoop(Tail(todo), InsertByDate(sorted, Head(todo)))

\* transactions.sort(key=lambda x: x["date"])
SortByDate(transactions) == SortLoop(transactions, << >>)

\* variant of PageFull: the cut-off of a shorter canvas
PageFullEarly(y) == y > 400 - 80

\* the page cut-off of the drawing loop: y > height - 80, height = 600
PageFull(y) == y > 600 - 80

RECURSIVE DrawTransactions(_, _, _, _)
\* the loop of lines 378-393: rows drawn on the canvas, entries collected
DrawTransactions(todo, y, image, entries) ==
  IF todo = << >> \/ PageFull(y) THEN [img |-> image, entries |-> entries]
  ELSE LET txn == Head(todo) IN
       DrawTransactions(Tail(todo), y + 22,
         Append(image, Op("row", <<txn.date, txn.amount, txn.balance>>, <<Prefix(txn.desc, 35)>>)),
         IF txn.charitable
         THEN Append(entries, [organization |-> txn.org.name,
                               amount |-> IF txn.amount < 0 THEN -txn.amount ELSE txn.amount,
                               date |-> StrfIso(txn.date)])
         ELSE entries)

\* generate_bank_statement up to the footer
GenerateStatementDraw(bank, quality, index) ==
  LET acct == RandInt(1000, 9999, rng)
      acct_num == "***" \o IntToStr(acct.val)
      start_date == RandomDate(acct.rng)
      end_date == start_date.val + 30
      balance == Uniform(5000, 15000, start_date.rng)
      nreg == RandInt(3, 5, balance.rng)
      regular == RegularTransactions(nreg.val,
                   [transactions |-> << >>, balance |-> balance.val,
                    current_date |-> start_date.val, rng |-> nreg.rng])
      nchar == RandInt(2, 3, regular.rng)
      charitable_orgs == Sample(ORGANIZATIONS, nchar.val, nchar.rng)
      all == CharitableTransactions(charitable_orgs.val,
               [regular EXCEPT !.rng = charitable_orgs.rng])
      transactions == SortByDate(all.transactions)
      header == << Op("statement", <<start_date.val, end_date>>, <<bank.name, acct_num>>) >>
      \* y = 100 + 20 + 40 + 30 when the first row is drawn
      drawn == DrawTransactions(transactions, 190, header, << >>)
  IN /\ rpc = "call"
     /\ frame' = [doc |-> "bank_statement", party |-> bank, quality |-> quality,
                  index |-> index,
                  fields |-> [bank_name |-> bank.name,
                              account_number |-> acct_num,
                              statement_period_start |-> StrfIso(start_date.val),
                              statement_period_end |-> StrfIso(end_date),
                              charitable_transactions |-> drawn.entries],
                  transactions |-> transactions, filename |-> ""]
     /\ img' = Append(drawn.img, Op("footer", << >>, <<"Page 1 of 1">>))
     /\ rng' = all.rng
     /\ rpc' = "watermark"
     /\ trace' = <<"draw">>

\* ------------------------------------------- the tail shared by the renderers

\* The three renderers end alike (lines 173-198, 278-299, 399-420): watermark,
\* apply_quality, filename, save, append, return.  The steps below serve all
\* three; what differs (subdirectory, filename, record) is chosen by frame.doc.

\* the subdirectory each renderer saves into
Subdir(doc) ==
  CASE doc = "receipt" -> "receipts"
    [] doc = "acknowledgment_letter" -> "acknowledgment_letters"
    [] doc = "bank_statement" -> "bank_statements"

\* the filename each renderer builds
Filename(f) ==
  CASE f.doc = "receipt" -> ReceiptFilename(f.party, f.quality, f.index)
    [] f.doc = "acknowledgment_letter" -> LetterFilename(f.party, f.quality, f.index)
    [] f.doc = "bank_statement" -> StatementFilename(f.party, f.quality, f.index)

\* variant of ManifestEntry: the entry names the bare filename, the
\* subdirectory left out
ManifestEntryBareName(f) ==
  [filename |-> f.filename,
   documentType |-> f.doc,
   quality |-> f.quality,
   synthetic |-> TRUE,
   expectedFields |-> f.fields]

\* the record each renderer appends
ManifestEntry(f) ==
  [filename |-> Subdir(f.doc) \o "/" \o f.filename,
   documentType |-> f.doc,
   quality |-> f.quality,
   synthetic |-> TRUE,
   expectedFields |-> f.fields]

\* the caller of the running renderer is alive: main in one of its loops, or
\* a direct caller
Running == pc \in {"receipts", "letters", "statements", "harness"}

\* img = add_watermark(img)
AddWatermark ==
  /\ Running
  /\ rpc = "watermark"
  /\ img' = AddWatermarkFn(img)
  /\ trace' = Append(trace, "add_watermark")
  /\ rpc' = "quality"
  /\ UNCHANGED << run, pc, rng, QUALITY_SETTINGS, i, countVars, manifest_entries,
                  frame, saved, diskVars >>

\* img = apply_quality(img, quality)
ApplyQuality ==
  /\ Running
  /\ rpc = "quality"
  /\ LET res == ApplyQualityFn(img, frame.quality, QUALITY_SETTINGS, rng) IN
       /\ img' = res.img
       /\ rng' = res.rng
  /\ trace' = Append(trace, "apply_quality")
  /\ rpc' = "save"
  /\ UNCHANGED << run, pc, QUALITY_SETTINGS, i, countVars, manifest_entries,
                  frame, saved, diskVars >>

\* filename = ...; filepath = os.path.join(OUTPUT_DIR, subdir, filename); img.save(filepath)
SaveImage ==
  /\ Running
  /\ rpc = "save"
  /\ frame.doc # ""
  /\ Subdir(frame.doc) \in dirs
  /\ LET filename == Filename(frame)
         filepath == PathJoin(PathJoin(OUTPUT_DIR, Subdir(frame.doc)), filename)
     IN /\ disk' = (filepath :> img) @@ disk
        /\ saved' = Append(saved, filepath)
        /\ frame' = [frame EXCEPT !.filename = filename]
  /\ trace' = Append(trace, "save")
  /\ rpc' = "append"
  /\ UNCHANGED << run, pc, rng, QUALITY_SETTINGS, i, countVars, manifest_entries,
                  img, dirs, manifest_file, manifest_writes >>

\* manifest_entries.append({...}); return filename
AppendManifest ==
  /\ Running
  /\ rpc = "append"
  /\ manifest_entries' = Append(manifest_entries, ManifestEntry(frame))
  /\ trace' = Append(trace, "append")
  /\ rpc' = "return"
  /\ UNCHANGED << run, pc, rng, QUALITY_SETTINGS, i, countVars, frame, img, saved, diskVars >>

\* -------------------------------------------------------------------- main

\* the seeds a launch may get in Spec, spread over the generator's range
MainSeeds == { 1 + (k * (Modulus - 2)) \div NumSeeds : k \in 0 .. NumSeeds - 1 }

\* os.makedirs(os.path.join(OUTPUT_DIR, subdir), exist_ok=True), one directory a step
MakeDir ==
  /\ pc = "mkdirs"
  /\ i < Len(SUBDIRS)
  /\ dirs' = dirs \cup {SUBDIRS[i + 1]}
  /\ i' = i + 1
  /\ UNCHANGED << run, pc, rng, QUALITY_SETTINGS, countVars, manifest_entries, rpc,
                  frame, img, trace, saved, disk, manifest_file, manifest_writes >>

\* manifest_entries = []; receipt_count = 0; the receipt loop starts
StartReceipts ==
  /\ pc = "mkdirs"
  /\ i = Len(SUBDIRS)
  /\ manifest_entries' = << >>
  /\ receipt_count' = 0
  /\ i' = 0
  /\ pc' = "receipts"
  /\ UNCHANGED << run, rng, QUALITY_SETTINGS, letter_count, statement_count, rpc,
                  frame, img, trace, saved, diskVars >>

\* variant of CallReceipt: the organization is drawn at random
CallReceiptRandomOrg ==
  /\ pc = "receipts"
  /\ i < Len(ReceiptQualities)
  /\ GenerateReceiptDraw(ORGANIZATIONS[(rng % Len(ORGANIZATIONS)) + 1],
                         ReceiptQualities[i + 1], receipt_count + 1)
  /\ UNCHANGED << run, pc, QUALITY_SETTINGS, i, countVars, manifest_entries, saved, diskVars >>

\* org = ORGANIZATIONS[i % len(ORGANIZATIONS)]; generate_receipt(org, quality, receipt_count + 1, ...)
CallReceipt ==
  /\ pc = "receipts"
  /\ i < Len(ReceiptQualities)
  /\ GenerateReceiptDraw(ORGANIZATIONS[(i % Len(ORGANIZATIONS)) + 1],
                         ReceiptQualities[i + 1], receipt_count + 1)
  /\ UNCHANGED << run, pc, QUALITY_SETTINGS, i, countVars, manifest_entries, saved, diskVars >>

\* receipt_count += 1, and the loop goes on
ReturnReceipt ==
  /\ pc = "receipts"
  /\ rpc = "return"
  /\ receipt_count' = receipt_count + 1
  /\ i' = i + 1
  /\ rpc' = "call"
  /\ UNCHANGED << run, pc, rng, QUALITY_SETTINGS, letter_count, statement_count,
                  manifest_entries, frame, img, trace, saved, diskVars >>

\* the receipt loop is exhausted; letter_count = 0
StartLetters ==
  /\ pc = "receipts"
  /\ rpc = "call"
  /\ i = Len(ReceiptQualities)
  /\ letter_count' = 0
  /\ i' = 0
  /\ pc' = "letters"
  /\ UNCHANGED << run, rng, QUALITY_SETTINGS, receipt_count, statement_count,
                  manifest_entries, rpc, frame, img, trace, saved, diskVars >>

CallLetter ==
  /\ pc = "letters"
  /\ i < Len(LetterQualities)
  /\ GenerateLetterDraw(ORGANIZATIONS[(i % Len(ORGANIZATIONS)) + 1],
                        LetterQualities[i + 1], letter_count + 1)
  /\ UNCHANGED << run, pc, QUALITY_SETTINGS, i, countVars, manifest_entries, saved, diskVars >>

ReturnLetter ==
  /\ pc = "letters"
  /\ rpc = "return"
  /\ letter_count' = letter_count + 1
  /\ i' = i + 1
  /\ rpc' = "call"
  /\ UNCHANGED << run, pc, rng, QUALITY_SETTINGS, receipt_count, statement_count,
                  manifest_entries, frame, img, trace, saved, diskVars >>

\* the letter loop is exhausted; statement_count = 0
StartStatements ==
  /\ pc = "letters"
  /\ rpc = "call"
  /\ i = Len(LetterQualities)
  /\ statement_count' = 0
  /\ i' = 0
  /\ pc' = "statements"
  /\ UNCHANGED << run, rng, QUALITY_SETTINGS, receipt_count, letter_count,
                  manifest_entries, rpc, frame, img, trace, saved, diskVars >>

CallStatement ==
  /\ pc = "statements"
  /\ i < Len(StatementQualities)
  /\ GenerateStatementDraw(BANKS[(i % Len(BANKS)) + 1],
                           StatementQualities[i + 1], statement_count + 1)
  /\ UNCHANGED << run, pc, QUALITY_SETTINGS, i, countVars, manifest_entries, saved, diskVars >>

ReturnStatement ==
  /\ pc = "statements"
  /\ rpc = "return"
  /\ statement_count' = statement_count + 1
  /\ i' = i + 1
  /\ rpc' = "call"
  /\ UNCHANGED << run, pc, rng, QUALITY_SETTINGS, receipt_count, letter_count,
                  manifest_entries, frame, img, trace, saved, diskVars >>

\* the statement loop is exhausted
EndStatements ==
  /\ pc = "statements"
  /\ rpc = "call"
  /\ i = Len(StatementQualities)
  /\ pc' = "manifest"
  /\ UNCHANGED << run, rng, QUALITY_SETTINGS, i, countVars, manifest_entries, rpc,
                  frame, img, trace, saved, diskVars >>

\* the manifest dict of lines 463-474; generatedAt is the launch's clock reading
Manifest ==
  [exists |-> TRUE,
   version |-> "1.0.0",
   generatedBy |-> "claude-synthetic",
   generatedAt |-> run,
   totalDocuments |-> Len(manifest_entries),
   documentCounts |-> [receipts |-> receipt_count,
                       acknowledgment_letters |-> letter_count,
                       bank_statements |-> statement_count],
   documents |-> manifest_entries]

\* with open(MANIFEST_PATH, 'w') as f: json.dump(manifest, f, indent=2)
WriteManifest ==
  /\ pc = "manifest"
  /\ manifest_file' = Manifest
  /\ manifest_writes' = manifest_writes + 1
  /\ pc' = "done"
  /\ UNCHANGED << run, rng, QUALITY_SETTINGS, i, countVars, manifest_entries, rpc,
                  frame, img, trace, saved, dirs, disk >>

\* variant of Fail: the manifest is written on the way out, as a finally
\* clause would
FailWritesManifest ==
  /\ pc \in {"mkdirs", "receipts", "letters", "statements"}
  /\ pc' = "failed"
  /\ manifest_file' = Manifest
  /\ manifest_writes' = manifest_writes + 1
  /\ UNCHANGED << run, rng, QUALITY_SETTINGS, i, countVars, manifest_entries, rpc,
                  frame, img, trace, saved, dirs, disk >>

\* an exception in os.makedirs, in a renderer or in img.save: nothing catches
\* it, main ends there
Fail ==
  /\ pc \in {"mkdirs", "receipts", "letters", "statements"}
  /\ pc' = "failed"
  /\ UNCHANGED << run, rng, QUALITY_SETTINGS, i, countVars, manifest_entries, rpc,
                  frame, img, trace, saved, diskVars >>

\* a launch: the module is imported (a fresh seed, QUALITY_SETTINGS evaluated)
\* and main starts; the disk is what it is
Launch(seed, n) ==
  LET qs == QualitySettings(seed) IN
  /\ run' = n
  /\ QUALITY_SETTINGS' = qs.table
  /\ rng' = qs.rng
  /\ pc' = "mkdirs"
  /\ i' = 0
  /\ receipt_count' = 0 /\ letter_count' = 0 /\ statement_count' = 0
  /\ manifest_entries' = << >>
  /\ rpc' = "call"
  /\ frame' = NoFrame
  /\ img' = << >>
  /\ trace' = << >>
  /\ saved' = << >>
  /\ manifest_writes' = 0

\* the script is run again after a complete run
Rerun ==
  /\ pc = "done"
  /\ run < MaxRuns
  /\ \E seed \in MainSeeds : Launch(seed, run + 1)
  /\ UNCHANGED << dirs, disk, manifest_file >>

\* the module imported with the given seed, nothing run yet
Imported(seed) ==
  LET qs == QualitySettings(seed) IN
  /\ run = 1
  /\ QUALITY_SETTINGS = qs.table
  /\ rng = qs.rng
  /\ i = 0
  /\ receipt_count = 0 /\ letter_count = 0 /\ statement_count = 0
  /\ manifest_entries = << >>
  /\ rpc = "call"
  /\ frame = NoFrame
  /\ img = << >>
  /\ trace = << >>
  /\ saved = << >>
  /\ disk = << >>
  /\ manifest_file = NoFile
  /\ manifest_writes = 0

Init ==
  /\ \E seed \in MainSeeds : Imported(seed)
  /\ pc = "mkdirs"
  /\ dirs = {}

Next ==
  \/ MakeDir \/ StartReceipts
  \/ CallReceipt \/ ReturnReceipt \/ StartLetters
  \/ CallLetter \/ ReturnLetter \/ StartStatements
  \/ CallStatement \/ ReturnStatement \/ EndStatements
  \/ AddWatermark \/ ApplyQuality \/ SaveImage \/ AppendManifest
  \/ WriteManifest \/ Fail \/ Rerun

Spec == Init /\ [][Next]_vars

\* ------------------------------------------------ apply_quality called directly

\* every QualitySeedStride-th state of the generator
QualitySeeds == { s \in 1 .. Modulus - 1 : s % QualitySeedStride = 0 }

\* the named presets and a label that is none of them
HarnessLabels == {"high", "medium", "low", "edge", "draft"}

\* canvases handed to apply_quality: blank, and drawn and watermarked
HarnessImages == { << >>, AddWatermarkFn(<< Op("receipt", <<0, 2500>>, <<"Goodwill Industries">>) >>) }

\* apply_quality(img, quality) is about to run on a chosen canvas and label
CallApplyQuality ==
  /\ pc = "harness"
  /\ rpc = "call"
  /\ i < MaxQualityCalls
  /\ \E q \in HarnessLabels, base \in HarnessImages :
       /\ frame' = [NoFrame EXCEPT !.quality = q]
       /\ img' = base
  /\ trace' = << >>
  /\ rpc' = "quality"
  /\ UNCHANGED << run, pc, rng, QUALITY_SETTINGS, i, countVars, manifest_entries,
                  saved, diskVars >>

\* the caller takes the returned image and goes on to its next call
ReturnApplyQuality ==
  /\ pc = "harness"
  /\ rpc = "save"
  /\ frame.doc = ""
  /\ i' = i + 1
  /\ rpc' = "call"
  /\ UNCHANGED << run, pc, rng, QUALITY_SETTINGS, countVars, manifest_entries,
                  frame, img, trace, saved, diskVars >>

InitQuality ==
  /\ \E seed \in QualitySeeds : Imported(seed)
  /\ pc = "harness"
  /\ dirs = {}

NextQuality == CallApplyQuality \/ ApplyQuality \/ ReturnApplyQuality

SpecQuality == InitQuality /\ [][NextQuality]_vars

\* ---------------------------------------- generate_bank_statement called directly

\* every StatementSeedStride-th state of the generator
StatementSeeds == { s \in 1 .. Modulus - 1 : s % StatementSeedStride = 0 }

\* generate_bank_statement(bank, quality, 1, []) with the directories in place
CallStatementDirect ==
  /\ pc = "harness"
  /\ manifest_entries = << >>
  /\ \E b \in {1, Len(BANKS)}, quality \in {"high", "edge"} :
       GenerateStatementDraw(BANKS[b], quality, 1)
  /\ UNCHANGED << run, pc, QUALITY_SETTINGS, i, countVars, manifest_entries, saved, diskVars >>

InitStatement ==
  /\ \E seed \in StatementSeeds : Imported(seed)
  /\ pc = "harness"
  /\ dirs = { SUBDIRS[k] : k \in 1 .. Len(SUBDIRS) }

NextStatement ==
  CallStatementDirect \/ AddWatermark \/ ApplyQuality \/ SaveImage \/ AppendManifest

SpecStatement == InitStatement /\ [][NextStatement]_vars

\* ===================================================================== claims

\* ------------------------------------------------------- reading strings back

RECURSIVE DigitValue(_, _)
DigitValue(c, k) == IF Digits[k + 1] = c THEN k ELSE DigitValue(c, k + 1)

RECURSIVE StrToInt(_)
StrToInt(s) ==
  IF Len(s) = 0 THEN 0
  ELSE 10 * StrToInt(SubSeq(s, 1, Len(s) - 1)) + DigitValue(SubSeq(s, Len(s), Len(s)), 0)

\* "YYYY-MM-DD" as a number that orders like the date
IsoKey(s) ==
  StrToInt(SubSeq(s, 1, 4)) * 10000 + StrToInt(SubSeq(s, 6, 7)) * 100 + StrToInt(SubSeq(s, 9, 10))

RECURSIVE SplitLoop(_, _, _, _)
SplitLoop(s, sep, from, k) ==
  IF k > Len(s) THEN << SubSeq(s, from, Len(s)) >>
  ELSE IF SubSeq(s, k, k) = sep
       THEN << SubSeq(s, from, k - 1) >> \o SplitLoop(s, sep, k + 1, k + 1)
       ELSE SplitLoop(s, sep, from, k + 1)

\* s.split(sep) for a one-character separator
Split(s, sep) == SplitLoop(s, sep, 1, 1)

Range(f) == { f[k] : k \in DOMAIN f }

\* the operations of a canvas, by name
OpNames(image) == [k \in DOMAIN image |-> image[k].op]

Filters == {"blur", "noise", "rotate"}

\* the filter operations of a canvas, in order
FilterNames(image) == SelectSeq(OpNames(image), LAMBDA n : n \in Filters)

\* ------------------------------------------------------------------------ C1

\* C1: metadata is emitted in lockstep with the rendered files.  A renderer
\* call saves exactly one image and then appends exactly one entry; between
\* calls the k-th entry's filename is the path, relative to OUTPUT_DIR, of the
\* k-th image saved, so the filenames of manifest_entries are exactly the
\* images saved so far in this launch.
C1_Lockstep ==
  /\ rpc \in {"call", "return"} =>
       /\ Len(manifest_entries) = Len(saved)
       /\ \A k \in DOMAIN saved : saved[k] = PathJoin(OUTPUT_DIR, manifest_entries[k].filename)
       /\ { PathJoin(OUTPUT_DIR, e.filename) : e \in Range(manifest_entries) } = Range(saved)
       /\ Range(saved) \subseteq DOMAIN disk
  /\ rpc \in {"watermark", "quality", "save"} => Len(manifest_entries) = Len(saved)
  /\ rpc = "append" => Len(saved) = Len(manifest_entries) + 1
  /\ rpc = "return" =>
       /\ Len(SelectSeq(trace, LAMBDA c : c = "save")) = 1
       /\ Len(SelectSeq(trace, LAMBDA c : c = "append")) = 1
       /\ trace[Len(trace)] = "append" /\ trace[Len(trace) - 1] = "save"

\* a statement has just been rendered after all receipts and letters
C1_Witness ==
  /\ pc = "statements" /\ rpc = "return"
  /\ Len(manifest_entries) = 51
  /\ saved[51] = "documents/bank_statements/bank_statement_chase_high_001.png"

\* ------------------------------------------------------------------------ C2

\* C2: at every point of a run no two entries of manifest_entries have the
\* same filename and no image path is saved twice.
C2_UniqueFilenames ==
  /\ \A j, k \in DOMAIN manifest_entries :
       j # k => manifest_entries[j].filename # manifest_entries[k].filename
  /\ \A j, k \in DOMAIN saved : j # k => saved[j] # saved[k]

\* a complete run: 65 entries, among them two receipts of the same
\* organization and quality
C2_Witness ==
  /\ pc = "done"
  /\ Len(manifest_entries) = 65
  /\ manifest_entries[1].filename = "receipts/receipt_goodwill_high_001.png"
  /\ manifest_entries[9].filename = "receipts/receipt_goodwill_high_009.png"

\* ------------------------------------------------------------------------ C3

\* the entries of one document type and quality
CountDocs(entries, type, quality) ==
  Len(SelectSeq(entries, LAMBDA e : e.documentType = type /\ e.quality = quality))

CountType(entries, type) == Len(SelectSeq(entries, LAMBDA e : e.documentType = type))

\* C3: the driver generates 30 receipts (12 high, 9 medium, 6 low, 3 edge),
\* then 20 letters (10, 6, 4), then 15 statements (8, 5, 2); the manifest
\* written has totalDocuments = 65 = the sum of documentCounts, and each
\* count is the number of documents of its type.
C3_Counts ==
  /\ pc \in {"manifest", "done"} =>
       /\ Len(manifest_entries) = 65
       /\ \A k \in 1 .. 30 : manifest_entries[k].documentType = "receipt"
       /\ \A k \in 31 .. 50 : manifest_entries[k].documentType = "acknowledgment_letter"
       /\ \A k \in 51 .. 65 : manifest_entries[k].documentType = "bank_statement"
       /\ CountDocs(manifest_entries, "receipt", "high") = 12
       /\ CountDocs(manifest_entries, "receipt", "medium") = 9
       /\ CountDocs(manifest_entries, "receipt", "low") = 6
       /\ CountDocs(manifest_entries, "receipt", "edge") = 3
       /\ CountDocs(manifest_entries, "acknowledgment_letter", "high") = 10
       /\ CountDocs(manifest_entries, "acknowledgment_letter", "medium") = 6
       /\ CountDocs(manifest_entries, "acknowledgment_letter", "low") = 4
       /\ CountDocs(manifest_entries, "bank_statement", "high") = 8
       /\ CountDocs(manifest_entries, "bank_statement", "medium") = 5
       /\ CountDocs(manifest_entries, "bank_statement", "low") = 2
  /\ manifest_file.exists =>
       LET c == manifest_file.documentCounts IN
       /\ manifest_file.totalDocuments = 65
       /\ manifest_file.totalDocuments = c.receipts + c.acknowledgment_letters + c.bank_statements
       /\ c.receipts = CountType(manifest_file.documents, "receipt")
       /\ c.acknowledgment_letters = CountType(manifest_file.documents, "acknowledgment_letter")
       /\ c.bank_statements = CountType(manifest_file.documents, "bank_statement")
       /\ Len(manifest_file.documents) = 65

\* the manifest of this launch has been written
C3_Witness ==
  /\ pc = "done"
  /\ manifest_file.exists
  /\ manifest_file.documents = manifest_entries
  /\ manifest_file.documentCounts.receipts = 30

\* ------------------------------------------------------------------------ C4

\* what the random module does not decide of an entry: its name, type and
\* quality, and the fields copied from the catalog
Catalogued(e) ==
  [filename |-> e.filename, documentType |-> e.documentType, quality |-> e.quality,
   synthetic |-> e.synthetic,
   party |-> IF e.documentType = "bank_statement"
             THEN <<e.expectedFields.bank_name>>
             ELSE <<e.expectedFields.organization_name, e.expectedFields.ein,
                    e.expectedFields.donor_name>>]

CataloguedAll(entries) == [k \in DOMAIN entries |-> Catalogued(entries[k])]

\* the filters of a canvas with their magnitudes
Degradation(image) == SelectSeq(image, LAMBDA o : o.op \in Filters)

\* the blur radii of a canvas: the part of the degradation the label fixes
BlurOf(image) == SelectSeq(image, LAMBDA o : o.op = "blur")

\* C4 as claimed: generation is deterministic.  A launch that follows
\* another one on the same inputs rewrites manifest.json with the same
\* documents and saves every image with the same degradation.
C4_Deterministic ==
  [][ /\ (manifest_file.exists /\ manifest_file'.exists) =>
           manifest_file'.documents = manifest_file.documents
      /\ \A p \in DOMAIN disk : Degradation(disk'[p]) = Degradation(disk[p]) ]_vars

\* C4 as amended: what two launches share is the sequence of filenames,
\* document types, quality labels and catalog fields (organization_name,
\* ein, donor_name, bank_name) of the manifest, the set of images and the
\* blur applied to each; the sampled fields, the noise and the edge
\* rotation come from the unseeded random module and differ.
C4_DeterministicNames ==
  [][ /\ (manifest_file.exists /\ manifest_file'.exists) =>
           CataloguedAll(manifest_file'.documents) = CataloguedAll(manifest_file.documents)
      /\ \A p \in DOMAIN disk : p \in DOMAIN disk' /\ BlurOf(disk'[p]) = BlurOf(disk[p]) ]_vars

\* the second launch is about to rewrite a manifest it does not reproduce
C4_Witness ==
  /\ run = 2 /\ pc = "manifest"
  /\ manifest_file.exists
  /\ manifest_entries # manifest_file.documents
  /\ CataloguedAll(manifest_entries) = CataloguedAll(manifest_file.documents)

\* ------------------------------------------------------------------------ C5

IsPrefix(a, b) == Len(a) <= Len(b) /\ SubSeq(b, 1, Len(a)) = a

\* content 0, watermark 1, blur 2, noise 3, rotate 4
Stage(name) ==
  CASE name = "watermark" -> 1
    [] name = "blur" -> 2
    [] name = "noise" -> 3
    [] name = "rotate" -> 4
    [] OTHER -> 0

\* the operations of a canvas come in the order content, watermark, blur,
\* noise, rotation, each filter at most once
Ordered(image) ==
  \A j, k \in DOMAIN image :
    j < k => /\ Stage(image[j].op) <= Stage(image[k].op)
             /\ Stage(image[k].op) > 0 => Stage(image[j].op) < Stage(image[k].op)

\* the filters a label enables
EnabledFilters(quality) ==
  LET st == SettingsFor(QUALITY_SETTINGS, quality) IN
  (IF st.blur > 0 THEN <<"blur">> ELSE << >>)
  \o (IF st.noise > 0 THEN <<"noise">> ELSE << >>)
  \o (IF st.rotation > 0 THEN <<"rotate">> ELSE << >>)

\* C5: in every renderer the content is drawn first, then the watermark,
\* then apply_quality, then the save; apply_quality runs its enabled steps
\* in the order blur, noise, rotation; no image is saved that has not been
\* through add_watermark and apply_quality.
C5_PostProcessingOrder ==
  /\ IsPrefix(trace, <<"draw", "add_watermark", "apply_quality", "save", "append">>)
  /\ Ordered(img)
  /\ rpc \in {"save", "append", "return"} => FilterNames(img) = EnabledFilters(frame.quality)
  /\ rpc \in {"append", "return"} =>
       /\ SubSeq(trace, 1, 4) = <<"draw", "add_watermark", "apply_quality", "save">>
       /\ disk[saved[Len(saved)]] = img
  /\ \A k \in DOMAIN saved :
       /\ Ordered(disk[saved[k]])
       /\ Len(SelectSeq(disk[saved[k]], LAMBDA o : o.op = "watermark")) = 1

\* an edge receipt has been saved blurred, noised and rotated
C5_Witness ==
  /\ rpc = "append"
  /\ frame.quality = "edge"
  /\ FilterNames(disk[saved[Len(saved)]]) = <<"blur", "noise", "rotate">>

\* ------------------------------------------------------------------------ C6

\* the document type a subdirectory stands for
TypeOfSubdir(d) ==
  CASE d = "receipts" -> "receipt"
    [] d = "acknowledgment_letters" -> "acknowledgment_letter"
    [] d = "bank_statements" -> "bank_statement"
    [] OTHER -> "none"

\* the quality label embedded in a filename: the field before the index
LabelIn(filename) ==
  LET fields == Split(filename, "_") IN fields[Len(fields) - 1]

FlatSchema(e) ==
  /\ DOMAIN e = {"filename", "documentType", "quality", "synthetic", "expectedFields"}
  /\ e.synthetic = TRUE
  /\ LET parts == Split(e.filename, "/") IN
       /\ Len(parts) = 2
       /\ TypeOfSubdir(parts[1]) = e.documentType
       /\ LabelIn(parts[2]) = e.quality

\* C6: every manifest entry has exactly the keys filename, documentType,
\* quality, synthetic, expectedFields; synthetic is true; quality is the
\* label embedded in the filename; the subdirectory of filename is the one
\* of documentType.  Entries are only ever appended: each is examined as the
\* last of the list, and all of them once the list is complete and written.
C6_FlatSchema ==
  /\ manifest_entries # << >> => FlatSchema(manifest_entries[Len(manifest_entries)])
  /\ pc \in {"manifest", "done"} =>
       \A k \in DOMAIN manifest_entries : FlatSchema(manifest_entries[k])
  /\ pc = "done" =>
       \A k \in DOMAIN manifest_file.documents : FlatSchema(manifest_file.documents[k])

\* entries of all three types are in the list
C6_Witness ==
  /\ pc = "done"
  /\ Len(manifest_file.documents) = 65
  /\ manifest_entries[30].quality = "edge"
  /\ manifest_entries[50].filename = "acknowledgment_letters/acknowledgment_habitat_low_020.png"
  /\ manifest_entries[65].documentType = "bank_statement"

\* ------------------------------------------------------------------------ C8

AllDirs == { SUBDIRS[k] : k \in 1 .. Len(SUBDIRS) }

\* C8: manifest.json is written exactly once per run of main, after every
\* directory has been created and all 65 images saved; when a renderer or a
\* save fails main stops and manifest.json is neither written nor changed,
\* the images saved so far staying on disk.
C8_ManifestWrittenOnce ==
  /\ [](/\ manifest_writes <= 1
        /\ pc = "done" => /\ manifest_writes = 1
                          /\ manifest_file = Manifest
        /\ manifest_writes = 1 => pc = "done"
        /\ pc = "failed" => /\ manifest_writes = 0
                            /\ Range(saved) \subseteq DOMAIN disk
                            /\ run = 1 => ~manifest_file.exists)
  /\ [][manifest_file' # manifest_file =>
          /\ pc = "manifest" /\ pc' = "done"
          /\ dirs = AllDirs
          /\ Len(saved) = 65
          /\ Range(saved) \subseteq DOMAIN disk
          /\ manifest_writes = 0 /\ manifest_writes' = 1]_vars

\* a renderer failed after some images were saved, one of them not yet in
\* the list, and there is no manifest
C8_Witness ==
  /\ pc = "failed"
  /\ rpc = "append"
  /\ Len(saved) = 31
  /\ ~manifest_file.exists

\* ------------------------------------------------------------------------ C7

Abs(n) == IF n < 0 THEN -n ELSE n

\* the last operation of a canvas is a rotation by the given magnitude
RotatedBy(image, magnitude) ==
  /\ image # << >>
  /\ image[Len(image)].op = "rotate"
  /\ Abs(image[Len(image)].arg[1]) = magnitude

\* C7: a label maps to fixed magnitudes for the whole run.  apply_quality
\* with high, or with a label that is no preset, blurs nothing, adds no
\* noise, rotates nothing and returns the image it was given; medium and
\* low never rotate; every edge image of a run is rotated by the magnitude
\* the table holds, which is between 5 and 15 and does not change during
\* the run, only the sign being drawn per image.
C7_FixedMagnitudes ==
  /\ [](/\ QUALITY_SETTINGS["edge"].rotation \in 5 .. 15
        /\ (rpc = "save" /\ frame.quality \in {"medium", "low"}) =>
              /\ "rotate" \notin Range(OpNames(img))
              /\ \E k \in DOMAIN img :
                   img[k].op = "blur" /\ img[k].arg = <<QUALITY_SETTINGS[frame.quality].blur>>
        /\ (rpc = "save" /\ frame.quality = "edge") =>
              RotatedBy(img, QUALITY_SETTINGS["edge"].rotation))
  /\ [][/\ (rpc = "quality" /\ rpc' = "save" /\ frame.quality \notin {"medium", "low", "edge"}) =>
              (img' = img /\ rng' = rng)
        /\ run' = run => QUALITY_SETTINGS' = QUALITY_SETTINGS]_vars

\* the second edge image of a run, turned the other way (a negative angle)
C7_Witness ==
  /\ pc = "harness" /\ i = 1
  /\ rpc = "save" /\ frame.quality = "edge"
  /\ img[Len(img)].op = "rotate"
  /\ img[Len(img)].arg[1] < -5

\* ------------------------------------------------------------------------ C9

\* the rows of a statement canvas
Rows(image) == SelectSeq(image, LAMBDA o : o.op = "row")

\* the entries the charitable transactions among the first n give
RECURSIVE CharitableAmong(_, _)
CharitableAmong(transactions, n) ==
  IF n = 0 THEN << >>
  ELSE LET t == transactions[n]
           before == CharitableAmong(transactions, n - 1)
       IN IF t.charitable
          THEN Append(before, [organization |-> t.org.name, amount |-> Abs(t.amount),
                               date |-> StrfIso(t.date)])
          ELSE before

\* a statement has been drawn
StatementDrawn == frame.doc = "bank_statement" /\ rpc # "call"

\* C9: charitable_transactions holds exactly the charitable transactions
\* drawn on the image, in the order drawn; the page cut-off is never
\* reached, so every transaction is drawn and the list has 2 or 3 entries,
\* each for a distinct organization of ORGANIZATIONS, each with an amount
\* between 50 and 500.
C9_CharitableTransactions ==
  StatementDrawn =>
    LET entries == frame.fields.charitable_transactions
        rows == Rows(img)
        txns == frame.transactions
    IN /\ Len(txns) \in 5 .. 8
       /\ Len(rows) = Len(txns)
       /\ \A k \in DOMAIN rows : rows[k].arg = <<txns[k].date, txns[k].amount, txns[k].balance>>
       /\ entries = CharitableAmong(txns, Len(rows))
       /\ Len(entries) \in {2, 3}
       /\ \A k \in DOMAIN entries :
            /\ \E o \in Range(ORGANIZATIONS) : o.name = entries[k].organization
            /\ entries[k].amount >= 50 * 100 /\ entries[k].amount <= 500 * 100
       /\ \A j, k \in DOMAIN entries : j # k => entries[j].organization # entries[k].organization

\* the longest statement: five regular and three charitable transactions, in
\* the manifest
C9_Witness ==
  /\ rpc = "return"
  /\ Len(manifest_entries) = 1
  /\ Len(frame.transactions) = 8
  /\ Len(manifest_entries[1].expectedFields.charitable_transactions) = 3
  /\ Len(Rows(img)) = 8

\* ----------------------------------------------------------------------- C10

\* C10: the date of every transaction of a statement, and so every date of
\* charitable_transactions, lies within the statement period:
\* statement_period_start <= date <= statement_period_end.
C10_DatesWithinPeriod ==
  StatementDrawn =>
    LET first == IsoKey(frame.fields.statement_period_start)
        last == IsoKey(frame.fields.statement_period_end)
        entries == frame.fields.charitable_transactions
    IN /\ \A k \in DOMAIN frame.transactions :
            /\ first <= IsoKey(StrfIso(frame.transactions[k].date))
            /\ IsoKey(StrfIso(frame.transactions[k].date)) <= last
       /\ \A k \in DOMAIN entries :
            first <= IsoKey(entries[k].date) /\ IsoKey(entries[k].date) <= last

====
